---- MODULE Spec2Model ----
(***************************************************************************)
(* Host UART driver (Sming/Arch/Host/Components/driver/uart.cpp).          *)
(*                                                                         *)
(* The state is the driver's file-scope state (isrMask, uartInstances,     *)
(* notifyCallbacks, s_uart_debug_nr), the heap of smg_uart_t objects and   *)
(* their SerialBuffers, and the position of the one task-context caller.   *)
(* A driver function is one action per step between two points at which    *)
(* the interrupt-context producer/consumer can observe or change shared    *)
(* state; the interrupt context is a pair of actions that may run between  *)
(* any two task steps.                                                     *)
(***************************************************************************)
EXTENDS Integers, Sequences, FiniteSets, TLC

(***************************************************************************)
(* Bounds of the model.                                                    *)
(***************************************************************************)
\* Number of smg_uart_t objects the heap can hold at once.
MaxObjs == 2
\* Largest rx_size / tx_size a configuration requests.
MaxSize == 1
\* Largest size argument of read and write.
MaxLen == 3
\* Notifications remembered per driver call (further ones are counted as the last).
MaxEvents == 2
\* Bytes the interrupt context appends to one RX buffer between two flushes
\* (a byte that arrives at a full buffer is lost and not counted).
MaxLog == 3

(***************************************************************************)
(* Program constants.                                                      *)
(***************************************************************************)
\* Taken from driver/uart.h.  The hardware FIFO sizes, which init_ex adds to
\* the requested buffer sizes, are 128 on the device and 1 here, so that a
\* buffer can be filled in a few steps; the headroom derived from them is
\* stored in the port and never read by this file.
UART_COUNT == 2
UART_NO == -1
UART_RX_FIFO_SIZE == 1
UART_TX_FIFO_SIZE == 1
RX_FIFO_FULL_THRESHOLD == 120
RX_FIFO_HEADROOM == UART_RX_FIFO_SIZE - RX_FIFO_FULL_THRESHOLD
DEFAULT_RX_HEADROOM == 32 - RX_FIFO_HEADROOM
NULL == 0

UART_FULL == "UART_FULL"
UART_RX_ONLY == "UART_RX_ONLY"
UART_TX_ONLY == "UART_TX_ONLY"
Modes == {UART_FULL, UART_RX_ONLY, UART_TX_ONLY}
UART_OPT_TXWAIT == "UART_OPT_TXWAIT"
UART_PIN_DEFAULT == "UART_PIN_DEFAULT"

UART_NOTIFY_AFTER_OPEN == "AFTER_OPEN"
UART_NOTIFY_BEFORE_CLOSE == "BEFORE_CLOSE"
UART_NOTIFY_BEFORE_READ == "BEFORE_READ"
UART_NOTIFY_AFTER_WRITE == "AFTER_WRITE"
UART_NOTIFY_WAIT_TX == "WAIT_TX"

\* Addresses `new smg_uart_t` can return.
Addr == 1..MaxObjs
\* Port identifiers, and the identifiers a caller may pass (one is out of range).
UartNrs == 0..(UART_COUNT - 1)
AnyNr == 0..UART_COUNT
\* Notification callbacks an application registers.
Callbacks == {"cbA", "cbB"}
\* The null function pointer.
NullCb == "nullptr"
Baudrates == {9600}
\* Per-port callbacks and the parameters an application passes with them.
UartCallbacks == {"onA", "onB"}
Params == {1, 2}

VARIABLES
    isrMask,          \* set of bit numbers set in isrMask
    uartInstances,    \* [UartNrs -> Addr \cup {NULL}]
    notifyCallbacks,  \* [UartNrs -> Callbacks \cup {NullCb}]
    s_uart_debug_nr,  \* UART_NO or a port number
    uarts,            \* the heap: [allocated addresses -> smg_uart_t]
    heapBufs,         \* number of SerialBuffer objects allocated and not deleted
    pc,               \* position of the task-context caller
    loc,              \* arguments and locals of the call in progress
    ret,              \* value returned by the call that reached "done"
    events,           \* notify() calls made by the call in progress
    hist              \* per open port: the configuration it was opened with, the
                      \* bytes appended to its RX buffer and the bytes its reads
                      \* returned, both since open or the last RX flush, and the
                      \* arguments of the set_callback call that last assigned
                      \* its callback, and whether the application has stopped
                      \* its interrupt since it was last armed

vars == <<isrMask, uartInstances, notifyCallbacks, s_uart_debug_nr, uarts,
          heapBufs, pc, loc, ret, events, hist>>

\* The driver's own state, without the caller's position and the history.
driver == <<isrMask, uartInstances, notifyCallbacks, s_uart_debug_nr, uarts,
            heapBufs>>

(***************************************************************************)
(* SerialBuffer: a fixed-capacity FIFO of bytes.                           *)
(***************************************************************************)
NoBuf == [present |-> FALSE, size |-> 0, data |-> <<>>]
NewBuf(size) == [present |-> TRUE, size |-> size, data |-> <<>>]
available(b) == Len(b.data)
getFreeSpace(b) == b.size - Len(b.data)
isEmpty(b) == Len(b.data) = 0
CanWrite(b) == Len(b.data) < b.size
writeChar(b, c) == IF CanWrite(b) THEN [b EXCEPT !.data = Append(@, c)] ELSE b
peekChar(b) == Head(b.data)
readChar(b) == [b EXCEPT !.data = Tail(@)]
clear(b) == [b EXCEPT !.data = <<>>]

(***************************************************************************)
(* Bit operations on isrMask.                                              *)
(***************************************************************************)
bitRead(mask, nr) == nr \in mask
bitSet(mask, nr) == mask \cup {nr}
bitClear(mask, nr) == mask \ {nr}

(***************************************************************************)
(* Helpers of the driver.                                                  *)
(***************************************************************************)
ModeRxEnabled(mode) == mode # UART_TX_ONLY
ModeTxEnabled(mode) == mode # UART_RX_ONLY
smg_uart_rx_enabled(uart) == uart # NULL /\ ModeRxEnabled(uarts[uart].mode)
smg_uart_tx_enabled(uart) == uart # NULL /\ ModeTxEnabled(uarts[uart].mode)

smg_uart_get_uart(uart_nr) ==
    IF uart_nr < UART_COUNT THEN uartInstances[uart_nr] ELSE NULL

smg_uart_isr_enabled(nr) == bitRead(isrMask, nr)

DetachEveryPort(mask, uart_nr) == {}

\* Line 416.
smg_uart_detach(mask, uart_nr) == bitClear(mask, uart_nr)

smg_uart_stop_isr(mask, uart) ==
    IF uart # NULL THEN smg_uart_detach(mask, uarts[uart].uart_nr) ELSE mask

StartIsrNotArmed(mask, uart_nr) == mask

\* Lines 158-160.
smg_uart_start_isr(mask, uart_nr) ==
    IF ~bitRead(mask, uart_nr) THEN bitSet(mask, uart_nr) ELSE mask

\* notify(): the call is recorded with the callback it finds registered
\* (NullCb: no callback is invoked).
NotifyRecordFirstSlot(uart, code) ==
    [cb |-> notifyCallbacks[0], uart |-> uart,
     nr |-> uarts[uart].uart_nr, code |-> code]
NotifyRecord(uart, code) ==
    [cb |-> notifyCallbacks[uarts[uart].uart_nr], uart |-> uart,
     nr |-> uarts[uart].uart_nr, code |-> code]
notify(ev, uart, code) ==
    IF Len(ev) < MaxEvents THEN Append(ev, NotifyRecord(uart, code)) ELSE ev

FlushRxSwapped(mode, uartMode) == mode # UART_RX_ONLY /\ uartMode # UART_TX_ONLY
\* Lines 243-244.
FlushRx(mode, uartMode) == mode # UART_TX_ONLY /\ uartMode # UART_TX_ONLY
FlushTx(mode, uartMode) == mode # UART_RX_ONLY /\ uartMode # UART_RX_ONLY

\* smg_uart_flush() applied to an object no other context can reach yet.
FlushedUart(u, mode) ==
    [u EXCEPT
       !.rx_buffer = IF FlushRx(mode, u.mode) /\ u.rx_buffer.present
                     THEN clear(@) ELSE @,
       !.tx_buffer = IF FlushTx(mode, u.mode) /\ u.tx_buffer.present
                     THEN clear(@) ELSE @]

smg_uart_set_baudrate_reg(uart_nr, baud_rate) == baud_rate

NoLoc == [op |-> "none"]

Init ==
    /\ isrMask = {}
    /\ uartInstances = [n \in UartNrs |-> NULL]
    /\ notifyCallbacks = [n \in UartNrs |-> NullCb]
    /\ s_uart_debug_nr = UART_NO
    /\ uarts = <<>>
    /\ heapBufs = 0
    /\ pc = "idle"
    /\ loc = NoLoc
    /\ ret = 0
    /\ events = <<>>
    /\ hist = <<>>

(***************************************************************************)
(* smg_uart_init_ex                                                        *)
(***************************************************************************)
Configs(nrs, opts, sizes) ==
    [uart_nr : nrs, mode : Modes, options : opts,
     rx_size : sizes, tx_size : sizes, baudrate : Baudrates]

\* The address `new smg_uart_t` returns when it succeeds: addresses are only
\* ever compared, so the allocator is taken to return the lowest free one
\* (an address freed by a close is used again by the next open).
NewAddr ==
    LET free == Addr \ DOMAIN uarts
    IN IF free = {} THEN {} ELSE {CHOOSE a \in free : \A b \in free : a <= b}

\* Outcomes of the three allocations: the address `new smg_uart_t` returns
\* (NULL: it fails) and whether each buffer allocation succeeds.
Allocs == [uart : NewAddr \cup {NULL}, rx : BOOLEAN, tx : BOOLEAN]

TxBufferSizeNoReserve(cfg) == cfg.tx_size
\* Lines 304-309.
RxBufferSize(cfg) == cfg.rx_size + UART_RX_FIFO_SIZE
TxBufferSize(cfg) == cfg.tx_size + UART_TX_FIFO_SIZE

InitUartBothBuffers(cfg) ==
    [uart_nr |-> cfg.uart_nr, mode |-> cfg.mode, options |-> cfg.options,
     baud_rate |-> smg_uart_set_baudrate_reg(cfg.uart_nr, cfg.baudrate),
     tx_pin |-> UART_PIN_DEFAULT, rx_pin |-> UART_PIN_DEFAULT,
     rx_headroom |-> DEFAULT_RX_HEADROOM,
     rx_buffer |-> NewBuf(RxBufferSize(cfg)), tx_buffer |-> NewBuf(TxBufferSize(cfg)),
     callback |-> NullCb, param |-> NULL]

\* The object after lines 296-320 (buffers allocated) and 325-327.
InitUart(cfg) ==
    LET u == [uart_nr |-> cfg.uart_nr, mode |-> cfg.mode, options |-> cfg.options,
              baud_rate |-> 0, tx_pin |-> UART_PIN_DEFAULT, rx_pin |-> UART_PIN_DEFAULT,
              rx_headroom |-> DEFAULT_RX_HEADROOM,
              rx_buffer |-> IF ModeRxEnabled(cfg.mode)
                            THEN NewBuf(RxBufferSize(cfg)) ELSE NoBuf,
              tx_buffer |-> IF ModeTxEnabled(cfg.mode)
                            THEN NewBuf(TxBufferSize(cfg)) ELSE NoBuf,
              callback |-> NullCb, param |-> NULL]
        b == [u EXCEPT !.baud_rate = smg_uart_set_baudrate_reg(cfg.uart_nr, cfg.baudrate)]
    IN FlushedUart(b, UART_FULL)

BufCount(u) ==
    (IF u.rx_buffer.present THEN 1 ELSE 0) + (IF u.tx_buffer.present THEN 1 ELSE 0)

InitExOutcomeNoLookup(cfg, alloc) ==
    IF cfg.uart_nr >= UART_COUNT THEN "range"
    ELSE IF alloc.uart = NULL THEN "nomem"
    ELSE IF ModeRxEnabled(cfg.mode) /\ ~alloc.rx THEN "norx"
    ELSE IF ModeTxEnabled(cfg.mode) /\ ~alloc.tx THEN "notx"
    ELSE "ok"

\* Why lines 283-320 return nullptr, or "ok".
InitExOutcome(cfg, alloc) ==
    IF smg_uart_get_uart(cfg.uart_nr) # NULL THEN "already"
    ELSE IF cfg.uart_nr >= UART_COUNT THEN "range"
    ELSE IF alloc.uart = NULL THEN "nomem"
    ELSE IF ModeRxEnabled(cfg.mode) /\ ~alloc.rx THEN "norx"
    ELSE IF ModeTxEnabled(cfg.mode) /\ ~alloc.tx THEN "notx"
    ELSE "ok"

HeapAfterTxFailLeak(h, cfg) == IF ModeRxEnabled(cfg.mode) THEN h + 1 ELSE h

\* SerialBuffer objects left allocated by a failed open: the RX buffer was
\* allocated when the TX allocation fails, and line 317 deletes it.
HeapAfterTxFail(h, cfg) ==
    LET allocated == IF ModeRxEnabled(cfg.mode) THEN h + 1 ELSE h
    IN IF ModeRxEnabled(cfg.mode) THEN allocated - 1 ELSE allocated

\* Lines 283-327: the checks, the allocations, and on success the detach,
\* baud rate, format and flush of the still private object.
smg_uart_init_ex(cfg, alloc) ==
    /\ pc = "idle"
    /\ events' = <<>>
    /\ LET why == InitExOutcome(cfg, alloc) IN
       /\ loc' = [op |-> "init_ex", cfg |-> cfg, why |-> why,
                  uart |-> IF why = "ok" THEN alloc.uart ELSE NULL]
       /\ IF why = "ok"
          THEN /\ uarts' = uarts @@ (alloc.uart :> InitUart(cfg))
               /\ hist' = hist @@ (alloc.uart :> [cfg |-> cfg, rx |-> <<>>, rd |-> <<>>,
                                                 set |-> <<NullCb, NULL>>,
                                                 stopped |-> FALSE])
               /\ heapBufs' = heapBufs + BufCount(InitUart(cfg))
               /\ isrMask' = smg_uart_detach(isrMask, cfg.uart_nr)
               /\ pc' = "init_register"
               /\ ret' = 0
          ELSE /\ heapBufs' = IF why = "notx" THEN HeapAfterTxFail(heapBufs, cfg)
                              ELSE heapBufs
               /\ pc' = "done"
               /\ ret' = NULL
               /\ UNCHANGED <<uarts, isrMask, hist>>
    /\ UNCHANGED <<uartInstances, notifyCallbacks, s_uart_debug_nr>>

\* Line 328.
InitRegister ==
    /\ pc = "init_register"
    /\ uartInstances' = [uartInstances EXCEPT ![loc.cfg.uart_nr] = loc.uart]
    /\ pc' = "init_start_isr"
    /\ UNCHANGED <<isrMask, notifyCallbacks, s_uart_debug_nr, uarts, heapBufs,
                   loc, ret, events, hist>>

\* Line 329.
InitStartIsr ==
    /\ pc = "init_start_isr"
    /\ isrMask' = smg_uart_start_isr(isrMask, uarts[loc.uart].uart_nr)
    /\ pc' = "init_notify"
    /\ UNCHANGED <<uartInstances, notifyCallbacks, s_uart_debug_nr, uarts,
                   heapBufs, loc, ret, events, hist>>

\* Lines 331-333.
InitNotify ==
    /\ pc = "init_notify"
    /\ events' = notify(events, loc.uart, UART_NOTIFY_AFTER_OPEN)
    /\ ret' = loc.uart
    /\ pc' = "done"
    /\ UNCHANGED <<isrMask, uartInstances, notifyCallbacks, s_uart_debug_nr,
                   uarts, heapBufs, loc, hist>>

(***************************************************************************)
(* smg_uart_uninit                                                         *)
(***************************************************************************)
\* Lines 338-342. uart_nr and debug0 remember the identifier of the port and
\* the debug selection at call time.
smg_uart_uninit(uart) ==
    /\ pc = "idle"
    /\ loc' = IF uart = NULL THEN [op |-> "uninit", uart |-> uart]
              ELSE [op |-> "uninit", uart |-> uart, uart_nr |-> uarts[uart].uart_nr,
                    debug0 |-> s_uart_debug_nr]
    /\ ret' = 0
    /\ IF uart = NULL
       THEN /\ events' = <<>>
            /\ pc' = "done"
       ELSE /\ events' = notify(<<>>, uart, UART_NOTIFY_BEFORE_CLOSE)
            /\ pc' = "uninit_stop_isr"
    /\ UNCHANGED <<isrMask, uartInstances, notifyCallbacks, s_uart_debug_nr,
                   uarts, heapBufs, hist>>

DebugAfterUninitKept(debug_nr, uart_nr) == debug_nr

\* Lines 346-348.
DebugAfterUninit(debug_nr, uart_nr) ==
    IF uart_nr = debug_nr THEN UART_NO ELSE debug_nr

RegistryAfterUninit(instances, uart_nr) == instances

\* Lines 344-352.
UninitRelease ==
    /\ pc = "uninit_stop_isr"
    /\ isrMask' = smg_uart_stop_isr(isrMask, loc.uart)
    /\ s_uart_debug_nr' = DebugAfterUninit(s_uart_debug_nr, uarts[loc.uart].uart_nr)
    /\ heapBufs' = heapBufs - BufCount(uarts[loc.uart])
    /\ uarts' = [a \in DOMAIN uarts \ {loc.uart} |-> uarts[a]]
    /\ hist' = [a \in DOMAIN hist \ {loc.uart} |-> hist[a]]
    /\ uartInstances' = RegistryAfterUninit(uartInstances, uarts[loc.uart].uart_nr)
    /\ pc' = "done"
    /\ UNCHANGED <<notifyCallbacks, loc, ret, events>>

(***************************************************************************)
(* smg_uart_set_notify, smg_uart_set_debug                                 *)
(***************************************************************************)
smg_uart_set_notify(uart_nr, callback) ==
    /\ pc = "idle"
    /\ loc' = [op |-> "set_notify", uart_nr |-> uart_nr, callback |-> callback]
    /\ events' = <<>>
    /\ pc' = "done"
    /\ IF uart_nr >= UART_COUNT
       THEN /\ ret' = 0
            /\ UNCHANGED notifyCallbacks
       ELSE /\ notifyCallbacks' = [notifyCallbacks EXCEPT ![uart_nr] = callback]
            /\ ret' = 1
    /\ UNCHANGED <<isrMask, uartInstances, s_uart_debug_nr, uarts, heapBufs, hist>>

smg_uart_set_debug(uart_nr) ==
    /\ pc = "idle"
    /\ loc' = [op |-> "set_debug", uart_nr |-> uart_nr]
    /\ events' = <<>>
    /\ ret' = 0
    /\ pc' = "done"
    /\ s_uart_debug_nr' = uart_nr
    /\ UNCHANGED <<isrMask, uartInstances, notifyCallbacks, uarts, heapBufs, hist>>

\* Lines 409-412.
smg_uart_get_debug == s_uart_debug_nr

(***************************************************************************)
(* The application arms and disarms the interrupt of a port itself, and    *)
(* brackets a critical section.                                            *)
(***************************************************************************)
\* The port's record of whether the application has stopped its interrupt.
Stopped(h, uart_nr, b) ==
    [a \in DOMAIN h |->
        IF a \in DOMAIN uarts /\ uarts[a].uart_nr = uart_nr
        THEN [h[a] EXCEPT !.stopped = b] ELSE h[a]]

\* smg_uart_start_isr(uart), lines 156-161. mask remembers isrMask at call time.
CallStartIsr(uart) ==
    /\ pc = "idle"
    /\ uart \in DOMAIN uarts
    /\ loc' = [op |-> "start_isr", uart |-> uart, uart_nr |-> uarts[uart].uart_nr,
               mask |-> isrMask]
    /\ isrMask' = smg_uart_start_isr(isrMask, uarts[uart].uart_nr)
    /\ hist' = Stopped(hist, uarts[uart].uart_nr, FALSE)
    /\ ret' = 0
    /\ events' = <<>>
    /\ pc' = "done"
    /\ UNCHANGED <<uartInstances, notifyCallbacks, s_uart_debug_nr, uarts, heapBufs>>

\* smg_uart_stop_isr(uart).
CallStopIsr(uart) ==
    /\ pc = "idle"
    /\ loc' = IF uart = NULL THEN [op |-> "stop_isr", uart |-> uart, mask |-> isrMask]
              ELSE [op |-> "stop_isr", uart |-> uart,
                    uart_nr |-> uarts[uart].uart_nr, mask |-> isrMask]
    /\ isrMask' = smg_uart_stop_isr(isrMask, uart)
    /\ hist' = IF uart = NULL THEN hist ELSE Stopped(hist, uarts[uart].uart_nr, TRUE)
    /\ ret' = 0
    /\ events' = <<>>
    /\ pc' = "done"
    /\ UNCHANGED <<uartInstances, notifyCallbacks, s_uart_debug_nr, uarts, heapBufs>>

\* smg_uart_detach(uart_nr), lines 414-417.
CallDetach(uart_nr) ==
    /\ pc = "idle"
    /\ loc' = [op |-> "detach", uart_nr |-> uart_nr, mask |-> isrMask]
    /\ isrMask' = smg_uart_detach(isrMask, uart_nr)
    /\ hist' = Stopped(hist, uart_nr, TRUE)
    /\ ret' = 0
    /\ events' = <<>>
    /\ pc' = "done"
    /\ UNCHANGED <<uartInstances, notifyCallbacks, s_uart_debug_nr, uarts, heapBufs>>

\* smg_uart_disable_interrupts(), lines 88-91: the caller keeps the mask it
\* is given and is inside its critical section.
CallDisableInterrupts ==
    /\ pc = "idle"
    /\ loc' = [op |-> "disable_interrupts", mask |-> isrMask]
    /\ ret' = 0
    /\ events' = <<>>
    /\ pc' = "disabled"
    /\ UNCHANGED <<driver, hist>>

\* smg_uart_restore_interrupts(), lines 93-95.
CallRestoreInterrupts ==
    /\ pc = "disabled"
    /\ pc' = "done"
    /\ UNCHANGED <<driver, loc, ret, events, hist>>

(***************************************************************************)
(* smg_uart_set_callback                                                   *)
(***************************************************************************)
SetCallbackKept(callback) == callback

\* Line 110: the value stored in uart->callback before the parameter changes.
SetCallbackCleared(callback) == NullCb

\* Lines 109-110.
smg_uart_set_callback(uart, callback, param) ==
    /\ pc = "idle"
    /\ loc' = [op |-> "set_callback", uart |-> uart, callback |-> callback,
               param |-> param]
    /\ ret' = 0
    /\ events' = <<>>
    /\ IF uart = NULL
       THEN /\ pc' = "done"
            /\ UNCHANGED uarts
       ELSE /\ uarts' = [uarts EXCEPT ![uart].callback = SetCallbackCleared(@)]
            /\ pc' = "set_callback_param"
    /\ UNCHANGED <<isrMask, uartInstances, notifyCallbacks, s_uart_debug_nr,
                   heapBufs, hist>>

\* Line 111.
SetCallbackParam ==
    /\ pc = "set_callback_param"
    /\ uarts' = [uarts EXCEPT ![loc.uart].param = loc.param]
    /\ pc' = "set_callback_callback"
    /\ UNCHANGED <<isrMask, uartInstances, notifyCallbacks, s_uart_debug_nr,
                   heapBufs, loc, ret, events, hist>>

\* Line 112.
SetCallbackCallback ==
    /\ pc = "set_callback_callback"
    /\ uarts' = [uarts EXCEPT ![loc.uart].callback = loc.callback]
    /\ hist' = [hist EXCEPT ![loc.uart].set = <<loc.callback, loc.param>>]
    /\ pc' = "done"
    /\ UNCHANGED <<isrMask, uartInstances, notifyCallbacks, s_uart_debug_nr,
                   heapBufs, loc, ret, events>>

\* Control is back in the application, which makes its next call.
Return ==
    /\ pc = "done"
    /\ pc' = "idle"
    /\ loc' = NoLoc
    /\ ret' = 0
    /\ events' = <<>>
    /\ UNCHANGED <<isrMask, uartInstances, notifyCallbacks, s_uart_debug_nr,
                   uarts, heapBufs, hist>>

(***************************************************************************)
(* smg_uart_read                                                           *)
(***************************************************************************)
SetRx(a, b) == [uarts EXCEPT ![a].rx_buffer = b]
SetTx(a, b) == [uarts EXCEPT ![a].tx_buffer = b]

ReadMoreOffByOne(read, size, rx) == read <= size /\ ~isEmpty(rx)

\* Line 130: the loop goes on.
ReadMore(read, size, rx) == read < size /\ ~isEmpty(rx)

\* Lines 118-126. avail0 and log0 remember the RX buffer at call time.
smg_uart_read(uart, buffer, size) ==
    /\ pc = "idle"
    /\ ret' = 0
    /\ IF ~smg_uart_rx_enabled(uart) \/ buffer = NULL \/ size = 0
       THEN /\ loc' = [op |-> "read", uart |-> uart, buffer |-> buffer,
                       size |-> size, started |-> FALSE]
            /\ events' = <<>>
            /\ pc' = "done"
       ELSE /\ loc' = [op |-> "read", uart |-> uart, buffer |-> buffer,
                       size |-> size, started |-> TRUE, read |-> 0, buf |-> <<>>,
                       avail0 |-> available(uarts[uart].rx_buffer),
                       log0 |-> Len(hist[uart].rx)]
            /\ events' = notify(<<>>, uart, UART_NOTIFY_BEFORE_READ)
            /\ pc' = "read_loop"
    /\ UNCHANGED <<driver, hist>>

ReadStoreFront(buf, read, c) == <<c>> \o buf

\* Line 131: buf[read++] = c.
ReadStore(buf, read, c) == [i \in 1..(read + 1) |-> IF i = read + 1 THEN c ELSE buf[i]]

\* Lines 129-134, one iteration of the loop per step.
ReadLoop ==
    /\ pc = "read_loop"
    /\ LET a == loc.uart
           rx == uarts[a].rx_buffer
       IN IF rx.present /\ ReadMore(loc.read, loc.size, rx)
          THEN /\ loc' = [loc EXCEPT !.buf = ReadStore(@, loc.read, peekChar(rx)),
                                      !.read = @ + 1]
               /\ uarts' = SetRx(a, readChar(rx))
               /\ UNCHANGED <<pc, ret, hist>>
          ELSE /\ ret' = loc.read
               /\ pc' = "done"
               /\ hist' = [hist EXCEPT ![a].rd = @ \o loc.buf]
               /\ UNCHANGED <<uarts, loc>>
    /\ UNCHANGED <<isrMask, uartInstances, notifyCallbacks, s_uart_debug_nr,
                   heapBufs, events>>

(***************************************************************************)
(* smg_uart_rx_available, smg_uart_tx_free                                 *)
(***************************************************************************)
\* Lines 88-95: nothing is disabled, the mask is returned.
smg_uart_disable_interrupts == isrMask
smg_uart_restore_interrupts == TRUE

smg_uart_rx_available(uart) ==
    /\ pc = "idle"
    /\ loc' = [op |-> "rx_available", uart |-> uart]
    /\ events' = <<>>
    /\ pc' = "done"
    /\ ret' = IF ~smg_uart_rx_enabled(uart) THEN 0
              ELSE IF uarts[uart].rx_buffer.present
                   THEN available(uarts[uart].rx_buffer) ELSE 0
    /\ UNCHANGED <<driver, hist>>

TxFree(u) == IF u.tx_buffer.present THEN getFreeSpace(u.tx_buffer) ELSE 0

smg_uart_tx_free(uart) ==
    /\ pc = "idle"
    /\ loc' = [op |-> "tx_free", uart |-> uart, hit |-> FALSE]
    /\ events' = <<>>
    /\ pc' = "done"
    /\ ret' = IF ~smg_uart_tx_enabled(uart) THEN 0 ELSE TxFree(uarts[uart])
    /\ UNCHANGED <<driver, hist>>

(***************************************************************************)
(* smg_uart_write                                                          *)
(***************************************************************************)
WriteAgainAlways(options, written, size) == written < size
WriteAgainNever(options, written, size) == FALSE

\* Lines 173 and 182: another pass of the outer loop follows.
WriteAgain(options, written, size) ==
    bitRead(options, UART_OPT_TXWAIT) /\ written < size

\* Lines 165-171. free0 and avail0 remember the TX buffer at call time; hit
\* becomes true when the interrupt context drains it during the call.
smg_uart_write(uart, buffer, data, size) ==
    /\ pc = "idle"
    /\ ret' = 0
    /\ events' = <<>>
    /\ IF ~smg_uart_tx_enabled(uart) \/ buffer = NULL \/ size = 0
       THEN /\ loc' = [op |-> "write", uart |-> uart, buffer |-> buffer,
                       size |-> size, started |-> FALSE]
            /\ pc' = "done"
       ELSE /\ loc' = [op |-> "write", uart |-> uart, buffer |-> buffer,
                       size |-> size, started |-> TRUE, data |-> data, written |-> 0,
                       free0 |-> TxFree(uarts[uart]),
                       avail0 |-> available(uarts[uart].tx_buffer),
                       hit |-> FALSE]
            /\ pc' = "write_fill"
    /\ UNCHANGED <<driver, hist>>

\* Lines 174-178, one iteration of the inner loop per step.
WriteFill ==
    /\ pc = "write_fill"
    /\ LET a == loc.uart
           tx == uarts[a].tx_buffer
       IN IF tx.present /\ loc.written < loc.size /\ CanWrite(tx)
          THEN /\ uarts' = SetTx(a, writeChar(tx, loc.data[loc.written + 1]))
               /\ loc' = [loc EXCEPT !.written = @ + 1]
               /\ UNCHANGED pc
          ELSE /\ pc' = "write_notify"
               /\ UNCHANGED <<uarts, loc>>
    /\ UNCHANGED <<isrMask, uartInstances, notifyCallbacks, s_uart_debug_nr,
                   heapBufs, ret, events, hist>>

\* What the caller still sees of the call once it has returned.
WriteDone(l) ==
    [op |-> l.op, uart |-> l.uart, buffer |-> l.buffer, size |-> l.size,
     started |-> l.started, free0 |-> l.free0, avail0 |-> l.avail0, hit |-> l.hit]

\* Lines 180-187.
WriteNotify ==
    /\ pc = "write_notify"
    /\ events' = notify(events, loc.uart, UART_NOTIFY_AFTER_WRITE)
    /\ IF WriteAgain(uarts[loc.uart].options, loc.written, loc.size)
       THEN /\ pc' = "write_fill"
            /\ UNCHANGED <<ret, loc>>
       ELSE /\ pc' = "done"
            /\ ret' = loc.written
            /\ loc' = WriteDone(loc)
    /\ UNCHANGED <<driver, hist>>

(***************************************************************************)
(* smg_uart_wait_tx_empty                                                  *)
(***************************************************************************)
WaitTxSkippedNullOnly(uart) == uart = NULL

\* Line 210: the call returns at once.
WaitTxSkipped(uart) == ~smg_uart_tx_enabled(uart)

\* Lines 210-214. avail0 remembers the TX buffer at call time; hit becomes
\* true when the interrupt context drains it during the call.
smg_uart_wait_tx_empty(uart) ==
    /\ pc = "idle"
    /\ ret' = 0
    /\ IF WaitTxSkipped(uart)
       THEN /\ loc' = [op |-> "wait_tx_empty", uart |-> uart, started |-> FALSE]
            /\ events' = <<>>
            /\ pc' = "done"
       ELSE /\ loc' = [op |-> "wait_tx_empty", uart |-> uart, started |-> TRUE,
                       avail0 |-> available(uarts[uart].tx_buffer), hit |-> FALSE]
            /\ events' = notify(<<>>, uart, UART_NOTIFY_WAIT_TX)
            /\ pc' = "wait_tx_loop"
    /\ UNCHANGED <<driver, hist>>

WaitTxMoreNever(tx) == FALSE

\* Line 217: the loop goes on.
WaitTxMore(tx) == ~isEmpty(tx)

\* Lines 216-220, one test of the loop condition per step: delay(0) yields
\* and the caller comes back to the test with nothing changed.
WaitTxLoop ==
    /\ pc = "wait_tx_loop"
    /\ LET tx == uarts[loc.uart].tx_buffer
       IN IF tx.present /\ WaitTxMore(tx)
          THEN UNCHANGED pc
          ELSE pc' = "done"
    /\ UNCHANGED <<driver, loc, ret, events, hist>>

(***************************************************************************)
(* smg_uart_flush                                                          *)
(***************************************************************************)
\* Lines 239-246. had remembers which buffers held bytes at call time.
smg_uart_flush(uart, mode) ==
    /\ pc = "idle"
    /\ ret' = 0
    /\ events' = <<>>
    /\ IF uart = NULL
       THEN /\ loc' = [op |-> "flush", uart |-> uart, mode |-> mode]
            /\ pc' = "done"
       ELSE /\ loc' = [op |-> "flush", uart |-> uart, mode |-> mode,
                       flushRx |-> FlushRx(mode, uarts[uart].mode),
                       flushTx |-> FlushTx(mode, uarts[uart].mode),
                       mask |-> smg_uart_disable_interrupts,
                       had |-> [rx |-> ~isEmpty(uarts[uart].rx_buffer),
                                tx |-> ~isEmpty(uarts[uart].tx_buffer)]]
            /\ pc' = "flush_rx"
    /\ UNCHANGED <<driver, hist>>

\* Lines 247-249.
FlushRxStep ==
    /\ pc = "flush_rx"
    /\ LET a == loc.uart
           rx == uarts[a].rx_buffer
       IN IF loc.flushRx /\ rx.present
          THEN /\ uarts' = SetRx(a, clear(rx))
               /\ hist' = [hist EXCEPT ![a].rx = <<>>, ![a].rd = <<>>]
          ELSE UNCHANGED <<uarts, hist>>
    /\ pc' = "flush_tx"
    /\ UNCHANGED <<isrMask, uartInstances, notifyCallbacks, s_uart_debug_nr,
                   heapBufs, loc, ret, events>>

\* Lines 251-255.
FlushTxStep ==
    /\ pc = "flush_tx"
    /\ LET a == loc.uart
           tx == uarts[a].tx_buffer
       IN IF loc.flushTx /\ tx.present
          THEN uarts' = SetTx(a, clear(tx))
          ELSE UNCHANGED uarts
    /\ smg_uart_restore_interrupts
    /\ pc' = "done"
    /\ UNCHANGED <<isrMask, uartInstances, notifyCallbacks, s_uart_debug_nr,
                   heapBufs, loc, ret, events, hist>>

(***************************************************************************)
(* The interrupt context: the producer of RX bytes and the consumer of TX  *)
(* bytes of every port whose interrupt is enabled.                         *)
(***************************************************************************)
\* "done" is the instant of the return, not a place the caller stays at: an
\* interrupt after the return is taken with the caller at "idle".
\* A byte arrives and is appended to the RX buffer.
IsrRx(nr, c) ==
    /\ pc # "done"
    /\ smg_uart_isr_enabled(nr)
    /\ uartInstances[nr] \in DOMAIN uarts
    /\ LET a == uartInstances[nr]
           rx == uarts[a].rx_buffer
       IN /\ rx.present
          /\ CanWrite(rx)
          /\ Len(hist[a].rx) < MaxLog
          /\ uarts' = SetRx(a, writeChar(rx, c))
          /\ hist' = [hist EXCEPT ![a].rx = Append(@, c)]
    /\ UNCHANGED <<isrMask, uartInstances, notifyCallbacks, s_uart_debug_nr,
                   heapBufs, pc, loc, ret, events>>

\* The bytes that arrive are numbered: the k-th byte appended to a buffer
\* since its last flush has the value k, so that a byte lost, repeated or
\* out of order shows in the values read.
Arriving(nr) ==
    IF uartInstances[nr] \in DOMAIN hist
    THEN {Len(hist[uartInstances[nr]].rx)} ELSE {}

\* The oldest byte of the TX buffer is moved out to the hardware.
IsrTx(nr) ==
    /\ pc # "done"
    /\ smg_uart_isr_enabled(nr)
    /\ uartInstances[nr] \in DOMAIN uarts
    /\ LET a == uartInstances[nr]
           tx == uarts[a].tx_buffer
       IN /\ tx.present
          /\ ~isEmpty(tx)
          /\ uarts' = SetTx(a, readChar(tx))
          /\ loc' = IF loc.op \in {"write", "tx_free", "wait_tx_empty"} /\ loc.uart = a
                       /\ "hit" \in DOMAIN loc
                    THEN [loc EXCEPT !.hit = TRUE] ELSE loc
    /\ UNCHANGED <<isrMask, uartInstances, notifyCallbacks, s_uart_debug_nr,
                   heapBufs, pc, ret, events, hist>>

\* The pointers the application may pass: a port it opened and has not
\* closed, or nullptr.
AppUarts == DOMAIN uarts \cup {NULL}

(***************************************************************************)
(* Opening, closing and configuring the ports.                             *)
(***************************************************************************)
Next ==
    \/ \E cfg \in Configs(AnyNr, {{}}, {0}) : \E alloc \in Allocs :
          smg_uart_init_ex(cfg, alloc)
    \/ InitRegister
    \/ InitStartIsr
    \/ InitNotify
    \/ \E uart \in AppUarts : smg_uart_uninit(uart)
    \/ UninitRelease
    \/ \E nr \in AnyNr : \E cb \in Callbacks \cup {NullCb} : smg_uart_set_notify(nr, cb)
    \/ \E nr \in UartNrs \cup {UART_NO} : smg_uart_set_debug(nr)
    \/ Return

Spec == Init /\ [][Next]_vars

(***************************************************************************)
(* Properties of opening and closing (checked under Spec).                 *)
(***************************************************************************)
IsOpen(nr) == \E a \in DOMAIN uarts : uarts[a].uart_nr = nr
OwnedBufs == LET S == DOMAIN uarts IN
    Cardinality({a \in S : uarts[a].rx_buffer.present})
      + Cardinality({a \in S : uarts[a].tx_buffer.present})
AllocFailures == {"nomem", "norx", "notx"}
InitExReturned == pc = "done" /\ loc.op = "init_ex"

\* C1: when no port with identifier id is open (in particular after the
\* port opened with id has been closed), an open with that in-range id whose
\* allocations succeed returns a port.
C1_ReopenAfterCloseSucceeds ==
    (/\ InitExReturned
     /\ loc.cfg.uart_nr \in UartNrs
     /\ loc.why \notin AllocFailures
     /\ ~IsOpen(loc.cfg.uart_nr))
    => ret # NULL

\* The step of a call of init_ex whose identifier is taken or out of range.
C2_SecondOpenStep ==
    (/\ pc = "idle"
     /\ loc'.op = "init_ex"
     /\ (loc'.cfg.uart_nr >= UART_COUNT \/ IsOpen(loc'.cfg.uart_nr)))
    => /\ pc' = "done"
       /\ ret' = NULL
       /\ events' = <<>>
       /\ UNCHANGED <<driver, hist>>
       /\ \A a \in DOMAIN uarts :
             uarts[a].uart_nr = loc'.cfg.uart_nr => uartInstances'[uarts[a].uart_nr] = a
\* C2: an open whose identifier belongs to an open port, or is out of range,
\* returns failure in one step that leaves the registry (still referring to
\* the first port), every port's configuration and buffers, the interrupt
\* mask and the callback table as they were, and fires no notification.
C2_SecondOpenFails == [][C2_SecondOpenStep]_vars

C2_Witness ==
    /\ InitExReturned
    /\ loc.why = "already"
    /\ IsOpen(loc.cfg.uart_nr)
    /\ ret = NULL

\* C3: an open that fails on an allocation leaves nothing behind: the registry
\* entry of the identifier is empty, its interrupt bit is clear, no
\* notification was fired, no port with the identifier exists, every
\* SerialBuffer still allocated belongs to an open port, and the same open
\* passes every check once its allocations succeed.
C3_AllocFailureLeavesNothing ==
    (InitExReturned /\ loc.why \in AllocFailures)
    => /\ ret = NULL
       /\ uartInstances[loc.cfg.uart_nr] = NULL
       /\ ~smg_uart_isr_enabled(loc.cfg.uart_nr)
       /\ events = <<>>
       /\ ~IsOpen(loc.cfg.uart_nr)
       /\ heapBufs = OwnedBufs
       /\ NewAddr # {}
       /\ \A a \in NewAddr :
             InitExOutcome(loc.cfg, [uart |-> a, rx |-> TRUE, tx |-> TRUE]) = "ok"

C3_Witness ==
    /\ InitExReturned
    /\ loc.why = "notx"
    /\ loc.cfg.mode = UART_FULL
    /\ DOMAIN uarts # {}

\* A step of init_ex or uninit keeps the callback table.
C10_OpenCloseKeepTable ==
    (loc.op \in {"init_ex", "uninit"} \/ loc'.op \in {"init_ex", "uninit"})
    => notifyCallbacks' = notifyCallbacks
\* What init_ex has notified when it returns.
C10_OpenNotifiesOnce ==
    InitExReturned
    => IF ret # NULL
       THEN /\ ret \in DOMAIN uarts
            /\ uarts[ret].uart_nr = loc.cfg.uart_nr
            /\ events = <<[cb |-> notifyCallbacks[loc.cfg.uart_nr], uart |-> ret,
                          nr |-> loc.cfg.uart_nr, code |-> UART_NOTIFY_AFTER_OPEN]>>
       ELSE events = <<>>
\* C10: no step of open or close changes the callback table (a callback
\* registered before the port exists is kept); a successful open(id) makes
\* exactly one notify call, with AFTER_OPEN, the new port and its identifier
\* id, to the callback registered for id; a failed open makes none.
C10_NotifyAfterOpen == [][C10_OpenCloseKeepTable]_vars /\ []C10_OpenNotifiesOnce

C10_Witness ==
    /\ InitExReturned
    /\ ret # NULL
    /\ loc.cfg.uart_nr = 1
    /\ notifyCallbacks[1] \in Callbacks
    /\ notifyCallbacks[0] # notifyCallbacks[1]
    /\ Len(events) = 1

UninitReturned == pc = "done" /\ loc.op = "uninit" /\ loc.uart # NULL

\* C11: when close returns, get_debug reports none if the debug selection at
\* call time was the identifier of the closed port, and reports the selection
\* of call time otherwise; close of a null port leaves the selection alone.
C11_CloseClearsDebug ==
    /\ UninitReturned =>
          smg_uart_get_debug = IF loc.debug0 = loc.uart_nr THEN UART_NO
                               ELSE loc.debug0
    /\ (pc = "uninit_stop_isr") => smg_uart_get_debug = loc.debug0

\* Port 1 was the debug port and has been closed while port 0 stays open.
C11_Witness ==
    /\ UninitReturned
    /\ loc.uart_nr = 1
    /\ loc.debug0 = 1
    /\ smg_uart_get_debug = UART_NO
    /\ IsOpen(0)

\* C15: between two calls, get_uart(id) returns a port iff a port with that
\* identifier has been opened and not closed, the port it returns is that
\* port and not a released one, and an out-of-range id gives nothing.
C15_LookupIffOpen ==
    pc = "idle" =>
       \A id \in AnyNr :
          /\ (smg_uart_get_uart(id) # NULL) <=> IsOpen(id)
          /\ smg_uart_get_uart(id) # NULL =>
                /\ smg_uart_get_uart(id) \in DOMAIN uarts
                /\ uarts[smg_uart_get_uart(id)].uart_nr = id
          /\ id >= UART_COUNT => smg_uart_get_uart(id) = NULL

\* C16: when close has fired BEFORE_CLOSE (the callback has just run), the
\* interrupt-enable bit of the port is already clear and the port and its
\* buffers still exist.
C16_DisarmedBeforeClose ==
    (/\ loc.op = "uninit"
     /\ pc = "uninit_stop_isr"
     /\ events = <<NotifyRecord(loc.uart, UART_NOTIFY_BEFORE_CLOSE)>>)
    => /\ ~smg_uart_isr_enabled(loc.uart_nr)
       /\ loc.uart \in DOMAIN uarts
       /\ uarts[loc.uart].rx_buffer.present = ModeRxEnabled(uarts[loc.uart].mode)
       /\ uarts[loc.uart].tx_buffer.present = ModeTxEnabled(uarts[loc.uart].mode)

\* C21: in every state the debug selection is none or the identifier of a
\* port that is open.
C21_DebugIsNoneOrOpenPort ==
    smg_uart_get_debug = UART_NO \/ IsOpen(smg_uart_get_debug)

(***************************************************************************)
(* The data path of port 0 with the interrupt context running.            *)
(***************************************************************************)
BufPtrs == {NULL, 1}
\* The caller's buffer: its i-th byte has the value i - 1.
WriteData(size) == [i \in 1..size |-> i - 1]

NextData ==
    \/ \E cfg \in Configs({0}, SUBSET {UART_OPT_TXWAIT}, 0..MaxSize) :
          \E alloc \in Allocs : smg_uart_init_ex(cfg, alloc)
    \/ InitRegister
    \/ InitStartIsr
    \/ InitNotify
    \/ \E uart \in AppUarts : \E buffer \in BufPtrs : \E size \in 0..MaxLen :
          smg_uart_read(uart, buffer, size)
    \/ ReadLoop
    \/ \E uart \in AppUarts : \E size \in 0..MaxLen :
          smg_uart_write(uart, 1, WriteData(size), size)
    \/ \E uart \in AppUarts : smg_uart_write(uart, NULL, <<>>, 1)
    \/ WriteFill
    \/ WriteNotify
    \/ \E uart \in AppUarts : \E mode \in Modes : smg_uart_flush(uart, mode)
    \/ FlushRxStep
    \/ FlushTxStep
    \/ \E uart \in AppUarts : smg_uart_rx_available(uart)
    \/ \E uart \in AppUarts : smg_uart_tx_free(uart)
    \/ \E uart \in AppUarts : smg_uart_wait_tx_empty(uart)
    \/ WaitTxLoop
    \/ \E uart \in AppUarts : smg_uart_uninit(uart)
    \/ UninitRelease
    \/ \E nr \in UartNrs : \E c \in Arriving(nr) : IsrRx(nr, c)
    \/ \E nr \in UartNrs : IsrTx(nr)
    \/ Return

SpecData == Init /\ [][NextData]_vars

(***************************************************************************)
(* Properties of the data path (checked under SpecData).                   *)
(***************************************************************************)
Min(a, b) == IF a < b THEN a ELSE b
IsPrefix(s, t) == Len(s) <= Len(t) /\ SubSeq(t, 1, Len(s)) = s
TxWait(a) == bitRead(uarts[a].options, UART_OPT_TXWAIT)
WriteReturned == pc = "done" /\ loc.op = "write" /\ loc.started
ReadReturned == pc = "done" /\ loc.op = "read" /\ loc.started
AfterWrite(a) ==
    [cb |-> notifyCallbacks[uarts[a].uart_nr], uart |-> a,
     nr |-> uarts[a].uart_nr, code |-> UART_NOTIFY_AFTER_WRITE]
BeforeRead(a) ==
    [cb |-> notifyCallbacks[uarts[a].uart_nr], uart |-> a,
     nr |-> uarts[a].uart_nr, code |-> UART_NOTIFY_BEFORE_READ]

\* C4: a write on a TX-enabled port without the wait option makes one fill
\* pass: it fires AFTER_WRITE exactly once and returns at most len; when the
\* interrupt context drains nothing during the call it returns
\* min(len, free space at call time) and the TX buffer holds exactly that
\* many bytes more than at call time.
C4_WriteNoWaitOnePass ==
    (WriteReturned /\ ~TxWait(loc.uart))
    => /\ events = <<AfterWrite(loc.uart)>>
       /\ ret <= loc.size
       /\ ~loc.hit =>
            /\ ret = Min(loc.size, loc.free0)
            /\ available(uarts[loc.uart].tx_buffer) = loc.avail0 + ret

C4_Witness ==
    /\ WriteReturned
    /\ ~TxWait(loc.uart)
    /\ ~loc.hit
    /\ loc.free0 > 0
    /\ loc.size > loc.free0
    /\ ret = loc.free0

\* C6: the bytes returned by the reads of a port since its open or last RX
\* flush, then the bytes the read in progress has taken, then the bytes still
\* in the RX buffer are exactly the bytes appended since then, in order; so
\* the reads return a prefix of what was appended.  A read returns at most
\* max_len bytes and has made its one BEFORE_READ call before it takes a byte.
C6_ReadsAreFifoPrefix ==
    /\ \A a \in DOMAIN uarts :
          uarts[a].rx_buffer.present =>
             LET taken == IF pc = "read_loop" /\ loc.uart = a THEN loc.buf ELSE <<>>
             IN /\ hist[a].rd \o taken \o uarts[a].rx_buffer.data = hist[a].rx
                /\ IsPrefix(hist[a].rd, hist[a].rx)
    /\ pc = "read_loop" =>
          /\ events = <<BeforeRead(loc.uart)>>
          /\ Len(loc.buf) = loc.read
          /\ loc.read <= loc.size
    /\ ReadReturned =>
          /\ events = <<BeforeRead(loc.uart)>>
          /\ ret = Len(loc.buf)
          /\ ret <= loc.size
          /\ IsPrefix(loc.buf, SubSeq(hist[loc.uart].rx,
                                      Len(hist[loc.uart].rd) - ret + 1,
                                      Len(hist[loc.uart].rx)))

\* Two reads in a row, the second with a byte arriving while it runs.
C6_Witness ==
    /\ ReadReturned
    /\ ret >= 1
    /\ Len(hist[loc.uart].rd) > ret
    /\ Len(hist[loc.uart].rx) > loc.log0
    /\ Len(hist[loc.uart].rx) > Len(hist[loc.uart].rd)

\* C7, as stated: a read never returns more bytes than the RX buffer held when
\* it was called.
C7_AtMostAvailableAtCall == ReadReturned => ret <= loc.avail0

\* C7, amended: a read returns at most max_len bytes and at most the bytes the
\* RX buffer held when it was called plus the bytes appended while it ran;
\* with nothing appended meanwhile, at most those it held when called.
C7_AtMostAvailablePlusArrived ==
    ReadReturned
    => LET arrived == Len(hist[loc.uart].rx) - loc.log0
       IN /\ arrived >= 0
          /\ ret <= loc.size
          /\ ret <= loc.avail0 + arrived
          /\ arrived = 0 => ret <= loc.avail0

C7_Witness ==
    /\ ReadReturned
    /\ ret > loc.avail0
    /\ ret = loc.avail0 + (Len(hist[loc.uart].rx) - loc.log0)

\* The effect of each step of a flush.
C8_FlushStep ==
    /\ (pc = "flush_rx" /\ pc' = "flush_tx") =>
          LET a == loc.uart
              wantRx == loc.mode # UART_TX_ONLY /\ uarts[a].mode # UART_TX_ONLY
          IN /\ uarts'[a].tx_buffer = uarts[a].tx_buffer
             /\ uarts'[a].rx_buffer =
                   IF wantRx THEN [uarts[a].rx_buffer EXCEPT !.data = <<>>]
                   ELSE uarts[a].rx_buffer
    /\ (pc = "flush_tx" /\ pc' = "done") =>
          LET a == loc.uart
              wantTx == loc.mode # UART_RX_ONLY /\ uarts[a].mode # UART_RX_ONLY
          IN /\ uarts'[a].rx_buffer = uarts[a].rx_buffer
             /\ uarts'[a].tx_buffer =
                   IF wantTx THEN [uarts[a].tx_buffer EXCEPT !.data = <<>>]
                   ELSE uarts[a].tx_buffer
    /\ (pc = "idle" /\ loc'.op = "flush" /\ loc'.uart = NULL) =>
          /\ pc' = "done"
          /\ UNCHANGED <<driver, hist>>
\* C8: the RX step of a flush empties the RX buffer iff neither the requested
\* mode nor the port's mode is TX_ONLY and otherwise leaves it as it is, and
\* never touches the TX buffer; the TX step does the same with RX_ONLY and the
\* TX buffer; a flush on a null port returns without changing anything.
C8_FlushClearsByMode == [][C8_FlushStep]_vars

\* flush(RX_ONLY) on an RX_TX port whose two buffers held bytes has returned.
C8_Witness ==
    /\ pc = "done"
    /\ loc.op = "flush"
    /\ loc.uart # NULL
    /\ loc.mode = UART_RX_ONLY
    /\ uarts[loc.uart].mode = UART_FULL
    /\ loc.had.rx
    /\ loc.had.tx
    /\ isEmpty(uarts[loc.uart].rx_buffer)
    /\ ~isEmpty(uarts[loc.uart].tx_buffer)

\* C9: in every state, each buffer of an open port holds between 0 and its
\* capacity bytes and available + free space is that capacity, the size
\* requested at open plus the hardware-FIFO reserve; a buffer exists for a
\* direction iff the mode has it; when open returns the TX free space is the
\* capacity, and tx_free and a write without drain report free space that
\* matches the bytes held.
C9_AvailablePlusFreeIsCapacity ==
    /\ \A a \in DOMAIN uarts :
          LET u == uarts[a]
              cfg == hist[a].cfg
          IN /\ u.rx_buffer.present = ModeRxEnabled(cfg.mode)
             /\ u.tx_buffer.present = ModeTxEnabled(cfg.mode)
             /\ u.rx_buffer.present =>
                   /\ available(u.rx_buffer) + getFreeSpace(u.rx_buffer)
                         = cfg.rx_size + UART_RX_FIFO_SIZE
                   /\ available(u.rx_buffer) \in 0..(cfg.rx_size + UART_RX_FIFO_SIZE)
             /\ u.tx_buffer.present =>
                   /\ available(u.tx_buffer) + getFreeSpace(u.tx_buffer)
                         = cfg.tx_size + UART_TX_FIFO_SIZE
                   /\ available(u.tx_buffer) \in 0..(cfg.tx_size + UART_TX_FIFO_SIZE)
    /\ (InitExReturned /\ ret # NULL /\ ModeTxEnabled(loc.cfg.mode)) =>
          TxFree(uarts[ret]) = loc.cfg.tx_size + UART_TX_FIFO_SIZE
    /\ (pc = "done" /\ loc.op = "tx_free" /\ smg_uart_tx_enabled(loc.uart)) =>
          ret + available(uarts[loc.uart].tx_buffer)
             = hist[loc.uart].cfg.tx_size + UART_TX_FIFO_SIZE
    /\ (WriteReturned /\ ~loc.hit) =>
          TxFree(uarts[loc.uart]) = loc.free0 - ret

\* Both buffers of a port hold bytes, the TX buffer is full.
C9_Witness ==
    \E a \in DOMAIN uarts :
       /\ uarts[a].mode = UART_FULL
       /\ hist[a].cfg.tx_size = MaxSize
       /\ available(uarts[a].rx_buffer) > 0
       /\ getFreeSpace(uarts[a].tx_buffer) = 0
       /\ WriteReturned
       /\ ret > 0

\* A call that returns 0 at once and leaves everything as it was.
NoEffect ==
    /\ pc' = "done"
    /\ ret' = 0
    /\ events' = <<>>
    /\ UNCHANGED <<driver, hist>>
Calls(op) == pc = "idle" /\ loc'.op = op

\* The first step of a call on a direction the port does not have.
C12_NoOpStep ==
    /\ (/\ Calls("read")
        /\ (~smg_uart_rx_enabled(loc'.uart) \/ loc'.buffer = NULL \/ loc'.size = 0))
       => NoEffect
    /\ (/\ Calls("write")
        /\ (~smg_uart_tx_enabled(loc'.uart) \/ loc'.buffer = NULL \/ loc'.size = 0))
       => NoEffect
    /\ (Calls("rx_available") /\ ~smg_uart_rx_enabled(loc'.uart)) => NoEffect
    /\ (Calls("tx_free") /\ ~smg_uart_tx_enabled(loc'.uart)) => NoEffect
    /\ (Calls("wait_tx_empty") /\ ~smg_uart_tx_enabled(loc'.uart)) => NoEffect
\* C12: read on a port without RX (or a null port, a null buffer or max_len
\* 0), write on a port without TX (or a null port, a null buffer or len 0),
\* rx_available, tx_free and wait_tx_empty on a port without the direction
\* return 0 in their first step, which invokes no notification callback and
\* changes no buffer, port, registry or interrupt-mask state.
C12_WrongDirectionIsNoOp == [][C12_NoOpStep]_vars

\* A read on a TX-only port whose TX buffer holds bytes has returned 0.
C12_Witness ==
    /\ pc = "done"
    /\ loc.op = "read"
    /\ loc.uart # NULL
    /\ uarts[loc.uart].mode = UART_TX_ONLY
    /\ loc.buffer # NULL
    /\ loc.size > 0
    /\ ~isEmpty(uarts[loc.uart].tx_buffer)
    /\ ret = 0
    /\ events = <<>>

\* What holds of every successful open when AFTER_OPEN has been fired (the
\* callback has just run): the port is registered, armed and configured.
AfterOpenReady ==
    /\ ret \in DOMAIN uarts
    /\ smg_uart_get_uart(loc.cfg.uart_nr) = ret
    /\ smg_uart_isr_enabled(loc.cfg.uart_nr)
    /\ uarts[ret].baud_rate = loc.cfg.baudrate
    /\ events = <<NotifyRecord(ret, UART_NOTIFY_AFTER_OPEN)>>

\* C17, as stated: when AFTER_OPEN has been fired the port is registered, its
\* interrupt-enable bit is set, its baud rate is the configured one and both
\* of its buffers are empty.
C17_AfterOpenBuffersEmpty ==
    (InitExReturned /\ ret # NULL)
    => /\ AfterOpenReady
       /\ isEmpty(uarts[ret].rx_buffer)
       /\ isEmpty(uarts[ret].tx_buffer)

\* C17, amended: AFTER_OPEN is the last step of a successful open; when it has
\* been fired the port is registered, its interrupt-enable bit is set, its
\* baud rate is the configured one, its TX buffer is empty and its RX buffer
\* holds exactly the bytes the interrupt context appended since the interrupt
\* was armed (none before that); the bit of the identifier is clear from the
\* detach until it is armed, after the port is registered.
C17_AfterOpenIsLast ==
    /\ (InitExReturned /\ ret # NULL) =>
          /\ AfterOpenReady
          /\ isEmpty(uarts[ret].tx_buffer)
          /\ uarts[ret].rx_buffer.data = hist[ret].rx
    /\ pc \in {"init_register", "init_start_isr"} =>
          /\ ~smg_uart_isr_enabled(loc.cfg.uart_nr)
          /\ isEmpty(uarts[loc.uart].rx_buffer)
          /\ isEmpty(uarts[loc.uart].tx_buffer)
          /\ events = <<>>
    /\ pc = "init_start_isr" => smg_uart_get_uart(loc.cfg.uart_nr) = loc.uart
    /\ pc = "init_notify" =>
          /\ smg_uart_get_uart(loc.cfg.uart_nr) = loc.uart
          /\ smg_uart_isr_enabled(loc.cfg.uart_nr)
          /\ events = <<>>

\* A byte arrived between the arming of the interrupt and AFTER_OPEN.
C17_Witness ==
    /\ InitExReturned
    /\ ret # NULL
    /\ available(uarts[ret].rx_buffer) = 1
    /\ events = <<NotifyRecord(ret, UART_NOTIFY_AFTER_OPEN)>>

\* Every port has the buffers of its mode, with the capacity of its open.
C19_BuffersMatchMode ==
    \A a \in DOMAIN uarts :
       LET u == uarts[a] IN
       /\ u.mode = hist[a].cfg.mode
       /\ u.rx_buffer.present <=> u.mode \in {UART_FULL, UART_RX_ONLY}
       /\ u.tx_buffer.present <=> u.mode \in {UART_FULL, UART_TX_ONLY}
       /\ u.rx_buffer.size = IF u.rx_buffer.present THEN RxBufferSize(hist[a].cfg) ELSE 0
       /\ u.tx_buffer.size = IF u.tx_buffer.present THEN TxBufferSize(hist[a].cfg) ELSE 0
\* No step changes which buffers a port that stays allocated has, nor their
\* capacities, nor its mode.
C19_BuffersKeptStep ==
    \A a \in DOMAIN uarts \cap DOMAIN uarts' :
       /\ uarts'[a].mode = uarts[a].mode
       /\ uarts'[a].rx_buffer.present = uarts[a].rx_buffer.present
       /\ uarts'[a].tx_buffer.present = uarts[a].tx_buffer.present
       /\ uarts'[a].rx_buffer.size = uarts[a].rx_buffer.size
       /\ uarts'[a].tx_buffer.size = uarts[a].tx_buffer.size
\* C19: from its open until its close a port has an RX buffer iff its mode
\* includes RX and a TX buffer iff its mode includes TX, each with the
\* capacity given at open, and no step of read, write, flush, rx_available,
\* tx_free, wait_tx_empty or the interrupt context changes which buffers
\* exist or their capacities; close removes them with the port.
C19_BuffersFollowMode == []C19_BuffersMatchMode /\ [][C19_BuffersKeptStep]_vars

\* An RX-only port whose RX buffer holds bytes is being closed.
C19_Witness ==
    /\ pc = "uninit_stop_isr"
    /\ uarts[loc.uart].mode = UART_RX_ONLY
    /\ uarts[loc.uart].rx_buffer.present
    /\ ~uarts[loc.uart].tx_buffer.present
    /\ uarts[loc.uart].rx_buffer.size = MaxSize + UART_RX_FIFO_SIZE
    /\ available(uarts[loc.uart].rx_buffer) > 0

\* The caller is between the disable_interrupts and the restore_interrupts
\* of a flush (lines 246-255).
InFlushWindow == pc \in {"flush_rx", "flush_tx"}

\* C14: between a task-context disable_interrupts and the matching
\* restore_interrupts no interrupt-context step changes a buffer of any port:
\* a step taken inside the window that is not the caller's own leaves every
\* port as it was.
C14_NoInterruptInsideWindow ==
    [][(InFlushWindow /\ pc' = pc) => UNCHANGED uarts]_vars

(***************************************************************************)
(* Writing to port 0 with a consumer that keeps draining: the caller keeps *)
(* running its loop and the interrupt context keeps taking the oldest byte *)
(* of a non-empty TX buffer.                                               *)
(***************************************************************************)
NextWrite ==
    \/ \E cfg \in Configs({0}, SUBSET {UART_OPT_TXWAIT}, 0..MaxSize) :
          \E alloc \in Allocs : smg_uart_init_ex(cfg, alloc)
    \/ InitRegister
    \/ InitStartIsr
    \/ InitNotify
    \/ \E uart \in AppUarts : \E size \in 0..MaxLen :
          smg_uart_write(uart, 1, WriteData(size), size)
    \/ WriteFill
    \/ WriteNotify
    \/ \E nr \in UartNrs : IsrTx(nr)
    \/ Return

SpecWriteFair ==
    /\ Init
    /\ [][NextWrite]_vars
    /\ WF_vars(WriteFill \/ WriteNotify)
    /\ WF_vars(\E nr \in UartNrs : IsrTx(nr))

Writing == pc \in {"write_fill", "write_notify"}

\* What a write with the wait option has done when it returns.
C5_WriteWaitReturned ==
    (WriteReturned /\ TxWait(loc.uart))
    => /\ ret = loc.size
       /\ loc.size > loc.free0 => loc.hit
\* A write with the wait option that is in progress returns.
C5_WriteWaitProgress ==
    (Writing /\ TxWait(loc.uart) /\ smg_uart_isr_enabled(uarts[loc.uart].uart_nr))
    ~> (WriteReturned /\ ret = loc.size)
\* C5: with the wait option set and the port's interrupt enabled, a write in
\* progress eventually returns; it returns len, never less, and when len
\* exceeds the free space at call time it returns only after the interrupt
\* context has drained the TX buffer during the call.
C5_WriteWaitReturnsLen == []C5_WriteWaitReturned /\ C5_WriteWaitProgress

\* A write longer than the whole TX buffer has returned its full length.
C5_Witness ==
    /\ WriteReturned
    /\ TxWait(loc.uart)
    /\ loc.size > uarts[loc.uart].tx_buffer.size
    /\ ret = loc.size

(***************************************************************************)
(* Waiting for the TX buffer of port 0 to drain: the caller keeps testing  *)
(* the loop condition and the interrupt context keeps taking the oldest    *)
(* byte of a non-empty TX buffer.                                          *)
(***************************************************************************)
NextWait ==
    \/ \E cfg \in Configs({0}, {{}}, 0..MaxSize) :
          \E alloc \in Allocs : smg_uart_init_ex(cfg, alloc)
    \/ InitRegister
    \/ InitStartIsr
    \/ InitNotify
    \/ \E uart \in AppUarts : \E size \in 0..MaxLen :
          smg_uart_write(uart, 1, WriteData(size), size)
    \/ WriteFill
    \/ WriteNotify
    \/ \E uart \in AppUarts : smg_uart_wait_tx_empty(uart)
    \/ WaitTxLoop
    \/ \E nr \in UartNrs : IsrTx(nr)
    \/ Return

SpecWaitFair ==
    /\ Init
    /\ [][NextWait]_vars
    /\ WF_vars(WaitTxLoop)
    /\ WF_vars(\E nr \in UartNrs : IsrTx(nr))

WaitTx(a) ==
    [cb |-> notifyCallbacks[uarts[a].uart_nr], uart |-> a,
     nr |-> uarts[a].uart_nr, code |-> UART_NOTIFY_WAIT_TX]
WaitReturned == pc = "done" /\ loc.op = "wait_tx_empty" /\ loc.started

\* WAIT_TX has been fired once when the loop condition is tested, and the
\* call has returned with the TX buffer empty.
C13_WaitState ==
    /\ pc = "wait_tx_loop" => events = <<WaitTx(loc.uart)>>
    /\ WaitReturned =>
          /\ events = <<WaitTx(loc.uart)>>
          /\ isEmpty(uarts[loc.uart].tx_buffer)
          /\ loc.avail0 > 0 => loc.hit
\* The call returns only from a state whose TX buffer is empty; with bytes
\* in the buffer the caller stays in the loop.
C13_WaitStep ==
    pc = "wait_tx_loop" =>
       /\ pc' = "done" => isEmpty(uarts[loc.uart].tx_buffer)
       /\ ~isEmpty(uarts[loc.uart].tx_buffer) => pc' = "wait_tx_loop"
\* A wait in progress on a port whose interrupt is enabled returns.
C13_WaitProgress ==
    (pc = "wait_tx_loop" /\ smg_uart_isr_enabled(uarts[loc.uart].uart_nr))
    ~> WaitReturned
\* C13: wait_tx_empty on a TX-enabled port fires WAIT_TX exactly once before
\* it first tests the TX buffer, returns only from a state in which the TX
\* buffer is empty (so with bytes in it and nothing draining it never
\* returns), and returns eventually when the interrupt context keeps
\* draining the buffer.
C13_WaitTxEmpty == []C13_WaitState /\ [][C13_WaitStep]_vars /\ C13_WaitProgress

\* A wait that began with a full TX buffer has returned.
C13_Witness ==
    /\ WaitReturned
    /\ loc.avail0 = uarts[loc.uart].tx_buffer.size
    /\ loc.avail0 > 1
    /\ loc.hit

(***************************************************************************)
(* Setting the per-port callback of open ports.                            *)
(***************************************************************************)
NextCallback ==
    \/ \E cfg \in Configs(UartNrs, {{}}, {0}) : \E alloc \in Allocs :
          smg_uart_init_ex(cfg, alloc)
    \/ InitRegister
    \/ InitStartIsr
    \/ InitNotify
    \/ \E uart \in AppUarts : smg_uart_uninit(uart)
    \/ UninitRelease
    \/ \E uart \in AppUarts : \E cb \in UartCallbacks \cup {NullCb} :
          \E param \in Params : smg_uart_set_callback(uart, cb, param)
    \/ SetCallbackParam
    \/ SetCallbackCallback
    \/ Return

SpecCallback == Init /\ [][NextCallback]_vars

\* What a reader of the port sees in any state, also between two steps of an
\* update: a callback that is not null comes with the parameter of the call
\* that assigned it.
C18_CallbackMatchesParam ==
    \A a \in DOMAIN uarts :
       uarts[a].callback # NullCb =>
          <<uarts[a].callback, uarts[a].param>> = hist[a].set
\* The steps of set_callback: on a null port nothing changes; otherwise the
\* callback is null from the first step until the last, the parameter changes
\* in between.
C18_SetCallbackStep ==
    /\ (Calls("set_callback") /\ loc'.uart = NULL) =>
          (pc' = "done" /\ UNCHANGED <<driver, hist>>)
    /\ (Calls("set_callback") /\ loc'.uart # NULL) =>
          /\ uarts'[loc'.uart].callback = NullCb
          /\ uarts'[loc'.uart].param = uarts[loc'.uart].param
    /\ pc = "set_callback_param" =>
          /\ uarts'[loc.uart].callback = NullCb
          /\ uarts'[loc.uart].param = loc.param
    /\ pc = "set_callback_callback" =>
          /\ uarts'[loc.uart].callback = loc.callback
          /\ uarts'[loc.uart].param = loc.param
\* C18: set_callback clears the callback before it changes the parameter: in
\* every state, the intermediate ones of an update included, a callback that
\* is not null is held together with the parameter passed in the call that
\* assigned it; set_callback on a null port changes nothing.
C18_CallbackNeverMismatched ==
    []C18_CallbackMatchesParam /\ [][C18_SetCallbackStep]_vars

\* In the middle of an update that replaces a callback and its parameter:
\* the new parameter is stored and the callback is still null.
C18_Witness ==
    /\ pc = "set_callback_callback"
    /\ uarts[loc.uart].callback = NullCb
    /\ uarts[loc.uart].param = loc.param
    /\ hist[loc.uart].set[1] \in UartCallbacks
    /\ hist[loc.uart].set[1] # loc.callback
    /\ hist[loc.uart].set[2] # loc.param
    /\ loc.callback \in UartCallbacks

(***************************************************************************)
(* Opening and closing ports while the application arms and disarms their  *)
(* interrupts.                                                             *)
(***************************************************************************)
NextIsr ==
    \/ \E cfg \in Configs(AnyNr, {{}}, {0}) : \E alloc \in Allocs :
          smg_uart_init_ex(cfg, alloc)
    \/ InitRegister
    \/ InitStartIsr
    \/ InitNotify
    \/ \E uart \in AppUarts : smg_uart_uninit(uart)
    \/ UninitRelease
    \/ \E uart \in AppUarts : CallStartIsr(uart)
    \/ \E uart \in AppUarts : CallStopIsr(uart)
    \/ \E nr \in UartNrs : CallDetach(nr)
    \/ CallDisableInterrupts
    \/ CallRestoreInterrupts
    \/ Return

SpecIsr == Init /\ [][NextIsr]_vars

\* Between two calls the bit of an identifier is set iff a port with that
\* identifier is open and the application has not stopped its interrupt;
\* with opens and closes alone: iff a port with that identifier is open.
C20_BitIffOpen ==
    pc = "idle" =>
       \A id \in UartNrs :
          smg_uart_isr_enabled(id) <=>
             \E a \in DOMAIN uarts : uarts[a].uart_nr = id /\ ~hist[a].stopped
\* What start, stop, detach and the disable/restore pair do to the mask.
C20_MaskStep ==
    /\ Calls("start_isr") =>
          /\ isrMask' = isrMask \cup {loc'.uart_nr}
          /\ loc'.uart_nr \in isrMask => isrMask' = isrMask
    /\ (Calls("stop_isr") /\ loc'.uart # NULL) =>
          /\ isrMask' = isrMask \ {loc'.uart_nr}
          /\ loc'.uart_nr \notin isrMask => isrMask' = isrMask
    /\ (Calls("stop_isr") /\ loc'.uart = NULL) => isrMask' = isrMask
    /\ Calls("detach") =>
          /\ isrMask' = isrMask \ {loc'.uart_nr}
          /\ loc'.uart_nr \notin isrMask => isrMask' = isrMask
    /\ Calls("disable_interrupts") => (isrMask' = isrMask /\ loc'.mask = isrMask)
    /\ pc = "disabled" => (isrMask' = isrMask /\ isrMask' = loc.mask)
\* C20: after opens and closes the interrupt-enable bit of an identifier is
\* set iff a port with that identifier is open; start sets only the bit of
\* its port and leaves a mask that has it as it is; stop and detach clear
\* only the bit of their port and leave a mask without it as it is; restore
\* after disable_interrupts leaves the mask that disable_interrupts returned.
C20_MaskFollowsPorts == []C20_BitIffOpen /\ [][C20_MaskStep]_vars

\* A second start in a row of port 0 has returned while port 1 is open and
\* stopped.
C20_Witness ==
    /\ pc = "done"
    /\ loc.op = "start_isr"
    /\ loc.uart_nr = 0
    /\ loc.mask = {0}
    /\ isrMask = {0}
    /\ IsOpen(1)

====
